---- MODULE Spec2Model ----
(***************************************************************************)
(* The kustomize-controller: KustomizationReconciler.Reconcile / sync and  *)
(* the update-event filter KustomizationSyncAtPredicate.Update.            *)
(*                                                                         *)
(* A Reconcile call is a process of the identity it was started for; the   *)
(* controller runs one call at a time.  Every blocking call of the        *)
(* handler (API read, external command, status write) is one action whose  *)
(* outcome is drawn from the outcomes that call can have.                  *)
(***************************************************************************)
EXTENDS Naturals, Integers, Sequences, FiniteSets, TLC

(***************************************************************************)
(* Bounds of the model.                                                    *)
(***************************************************************************)
MaxDirs       == 2   \* names ioutil.TempDir can draw from
MaxGeneration == 2   \* metadata.generation ranges over 1..MaxGeneration
MaxReconciles == 2   \* Reconcile calls started, over all identities
MaxUserWrites == 1   \* writes by other clients, over all identities
MaxRemoveFailures == 1   \* failures of os.RemoveAll, over all calls

\* The Kustomizations of the cluster.
Names == {"a", "b"}

\* SetupWithManager sets no controller options, so the controller runs
\* controller-runtime's default of one Reconcile call at a time.
MaxConcurrentReconciles == 1

Dirs == 1..MaxDirs

Nil == [nil |-> TRUE]

(***************************************************************************)
(* Names defined by the API packages (kustomizev1, sourcev1).              *)
(***************************************************************************)
SyncAtAnnotation             == "kustomize.fluxcd.io/syncAt"
OtherAnnotation              == "example.com/other"
ArtifactFailedReason         == "ArtifactFailed"
BuildFailedReason            == "BuildFailed"
ApplyFailedReason            == "ApplyFailed"
ApplySucceedReason           == "ApplySucceed"
StorageOperationFailedReason == "StorageOperationFailed"

(***************************************************************************)
(* Object metadata as the predicate reads it: a generation and the         *)
(* annotation map (a function whose domain is the set of keys present).    *)
(***************************************************************************)
AnnotationKeys   == {SyncAtAnnotation, OtherAnnotation}
AnnotationValues == {"", "t1", "t2"}
AnnotationMaps   == UNION {[S -> AnnotationValues] : S \in SUBSET AnnotationKeys}
Generations      == 1..MaxGeneration
Metas            == [generation : Generations, annotations : AnnotationMaps]
UpdateEvents     == [MetaOld : Metas \cup {Nil}, MetaNew : Metas \cup {Nil}]

GetGeneration(m)  == m.generation
GetAnnotations(m) == m.annotations

\* Update with the sync-at branch comparing presence only (values ignored).
UpdateIgnoringValue(e) ==
    IF e.MetaOld = Nil \/ e.MetaNew = Nil
    THEN FALSE
    ELSE IF GetGeneration(e.MetaNew) # GetGeneration(e.MetaOld)
    THEN TRUE
    ELSE IF SyncAtAnnotation \in DOMAIN GetAnnotations(e.MetaNew)
    THEN SyncAtAnnotation \notin DOMAIN GetAnnotations(e.MetaOld)
    ELSE FALSE

\* Update with the generation check dropped.
UpdateWithoutGeneration(e) ==
    IF e.MetaOld = Nil \/ e.MetaNew = Nil
    THEN FALSE
    ELSE IF SyncAtAnnotation \in DOMAIN GetAnnotations(e.MetaNew)
    THEN IF SyncAtAnnotation \in DOMAIN GetAnnotations(e.MetaOld)
         THEN GetAnnotations(e.MetaNew)[SyncAtAnnotation]
                  # GetAnnotations(e.MetaOld)[SyncAtAnnotation]
         ELSE TRUE
    ELSE FALSE

\* Update with the nil check on the new side only; a nil old side reads as
\* generation 0 with no annotations.
UpdateNilOldAllowed(e) ==
    IF e.MetaNew = Nil
    THEN FALSE
    ELSE IF e.MetaOld = Nil
    THEN TRUE
    ELSE IF GetGeneration(e.MetaNew) # GetGeneration(e.MetaOld)
    THEN TRUE
    ELSE IF SyncAtAnnotation \in DOMAIN GetAnnotations(e.MetaNew)
    THEN IF SyncAtAnnotation \in DOMAIN GetAnnotations(e.MetaOld)
         THEN GetAnnotations(e.MetaNew)[SyncAtAnnotation]
                  # GetAnnotations(e.MetaOld)[SyncAtAnnotation]
         ELSE TRUE
    ELSE FALSE

\* Update comparing the whole annotation maps instead of the sync-at key.
UpdateAnyAnnotation(e) ==
    IF e.MetaOld = Nil \/ e.MetaNew = Nil
    THEN FALSE
    ELSE IF GetGeneration(e.MetaNew) # GetGeneration(e.MetaOld)
    THEN TRUE
    ELSE GetAnnotations(e.MetaNew) # GetAnnotations(e.MetaOld)

\* KustomizationSyncAtPredicate.Update
Update(e) ==
    IF e.MetaOld = Nil \/ e.MetaNew = Nil
    THEN FALSE                                   \* ignore objects without metadata
    ELSE IF GetGeneration(e.MetaNew) # GetGeneration(e.MetaOld)
    THEN TRUE                                    \* reconcile on spec changes
    ELSE IF SyncAtAnnotation \in DOMAIN GetAnnotations(e.MetaNew)
    THEN IF SyncAtAnnotation \in DOMAIN GetAnnotations(e.MetaOld)
         THEN GetAnnotations(e.MetaNew)[SyncAtAnnotation]
                  # GetAnnotations(e.MetaOld)[SyncAtAnnotation]
         ELSE TRUE
    ELSE FALSE

(***************************************************************************)
(* Values of the reconciler.                                               *)
(***************************************************************************)
ArtifactURL == "https://x/artifact.tar.gz"
NextArtifactURL == "https://x/artifact-2.tar.gz"
ArtifactURLs == {ArtifactURL, NextArtifactURL}
RepoName    == "podinfo"
Intervals   == {1, 5}
Prunes      == {"", "app=foo"}

\* Errors are records carrying the pieces fmt.Errorf puts together.
Errorf(parts) == [msg |-> parts]
NotFoundErr   == Errorf(<<"not found">>)
ConflictErr   == Errorf(<<"conflict">>)
DeadlineErr   == Errorf(<<"context deadline exceeded">>)
ExitErr       == Errorf(<<"exit status 1">>)

\* The combined output an external step leaves behind when it fails.
Output(step) == <<step, "diagnostic output">>

NoCondition == [status |-> "Unknown", reason |-> "", message |-> <<>>]

\* kustomizev1.KustomizationReady / KustomizationNotReady
KustomizationReady(kustomization, reason, message) ==
    [kustomization EXCEPT
        !.condition = [status |-> "True", reason |-> reason, message |-> message]]
KustomizationNotReady(kustomization, reason, message) ==
    [kustomization EXCEPT
        !.condition = [status |-> "False", reason |-> reason, message |-> message]]

Meta(o) == [generation |-> o.generation, annotations |-> o.annotations]

NoResult == [Requeue |-> FALSE, RequeueAfter |-> 0, err |-> Nil, returned |-> FALSE]
Result(requeue, after, err) ==
    [Requeue |-> requeue, RequeueAfter |-> after, err |-> err, returned |-> TRUE]

VARIABLES
    obj,            \* API server: the Kustomization of each identity, or Nil
    queue,          \* work queue: identities with a pending reconciliation
    workspaces,     \* temporary directories that exist on disk
    reconciles,     \* Reconcile calls started so far
    userWrites,     \* writes by other clients so far
    removeFailures, \* failures of os.RemoveAll so far
    pc,             \* position of the Reconcile call of each identity
    ctxDone,        \* whether the call's 15 s context has expired
    kustomization,  \* Reconcile's local: the object as loaded
    repository,     \* Reconcile's local: the GitRepository as loaded
    tmpDir,         \* sync's local: the directory it created
    synced,         \* syncedKustomization
    syncErr,        \* the error sync returned
    result,         \* what Reconcile returned
    trace,          \* the calls the current Reconcile has made, in order
    event,          \* the last update event handed to the predicate
    passed,         \* what the predicate answered for it
    served,         \* the artifact URLs the source publishes
    files,          \* what each temporary directory holds
    applied         \* cluster: the manifest last applied for each identity

vars == <<obj, queue, workspaces, reconciles, userWrites, removeFailures, pc, ctxDone,
          kustomization, repository, tmpDir, synced, syncErr, result, trace,
          event, passed, served, files, applied>>


NoEvent == [MetaOld |-> Nil, MetaNew |-> Nil]

\* The objects as created: "a" plain, "b" with a prune selector, a longer
\* interval and a sync-at annotation.
InitialObject(k) ==
    IF k = "a"
    THEN [generation |-> 1, annotations |-> << >>, interval |-> 1, prune |-> "",
          condition |-> NoCondition, resourceVersion |-> 1]
    ELSE [generation |-> 1, annotations |-> [x \in {SyncAtAnnotation} |-> "t1"],
          interval |-> 5, prune |-> "app=foo",
          condition |-> NoCondition, resourceVersion |-> 1]

InitWith(urls) ==
    /\ served = urls
    /\ obj = [k \in Names |-> InitialObject(k)]
    /\ queue = Names                  \* the create events enqueue every object
    /\ workspaces = {}
    /\ reconciles = 0
    /\ userWrites = 0
    /\ removeFailures = 0
    /\ pc = [k \in Names |-> "idle"]
    /\ ctxDone = [k \in Names |-> FALSE]
    /\ kustomization = [k \in Names |-> Nil]
    /\ repository = [k \in Names |-> Nil]
    /\ tmpDir = [k \in Names |-> Nil]
    /\ synced = [k \in Names |-> Nil]
    /\ syncErr = [k \in Names |-> Nil]
    /\ result = [k \in Names |-> NoResult]
    /\ trace = [k \in Names |-> << >>]
    /\ event = NoEvent
    /\ passed = FALSE
    /\ files = [d \in [suffix : Dirs] |-> {}]
    /\ applied = [k \in Names |-> Nil]

Init == InitWith({ArtifactURL})

(***************************************************************************)
(* The watch: every write of a Kustomization reaches the controller as an  *)
(* update event, which WithEventFilter hands to the predicate; an event    *)
(* that passes puts the identity on the work queue.                        *)
(***************************************************************************)
UpdateEvent(old, new) == [MetaOld |-> Meta(old), MetaNew |-> Meta(new)]

\* The event filter left out: every update event queues the identity.
EnqueueUnfiltered(q, k, ev) == q \cup {k}

\* WithEventFilter(KustomizationSyncAtPredicate{}): the identity is queued
\* when the predicate lets the event through.
Enqueue(q, k, ev) == IF Update(ev) THEN q \cup {k} ELSE q

Append1(t, k, op) == [t EXCEPT ![k] = Append(@, op)]

\* Helpers for reading the trace of a call.
Ops(k)        == {trace[k][i].op : i \in 1..Len(trace[k])}
Count(k, op)  == Cardinality({i \in 1..Len(trace[k]) : trace[k][i].op = op})

(***************************************************************************)
(* Other clients of the API server.                                        *)
(***************************************************************************)
\* A spec change: the API server bumps metadata.generation.
UserUpdateSpec(k) ==
    /\ userWrites < MaxUserWrites
    /\ obj[k] # Nil
    /\ obj[k].generation < MaxGeneration
    /\ \E i \in Intervals, p \in Prunes :
         LET new == [obj[k] EXCEPT !.generation = @ + 1, !.interval = i, !.prune = p,
                                   !.resourceVersion = @ + 1]
         IN /\ i # obj[k].interval
            /\ p # obj[k].prune
            /\ obj' = [obj EXCEPT ![k] = new]
            /\ queue' = Enqueue(queue, k, UpdateEvent(obj[k], new))
    /\ userWrites' = userWrites + 1
    /\ UNCHANGED <<workspaces, reconciles, pc, ctxDone, kustomization, repository,
                   tmpDir, synced, syncErr, result, trace, removeFailures, event, passed, served, files, applied>>

\* A metadata change: an annotation is set or changed.
UserAnnotate(k) ==
    /\ userWrites < MaxUserWrites
    /\ obj[k] # Nil
    /\ \E key \in AnnotationKeys, v \in {"t1", "t2"} :
         LET old == obj[k].annotations
             a   == [x \in DOMAIN old \cup {key} |-> IF x = key THEN v ELSE old[x]]
             new == [obj[k] EXCEPT !.annotations = a, !.resourceVersion = @ + 1]
         IN /\ a # old
            /\ obj' = [obj EXCEPT ![k] = new]
            /\ queue' = Enqueue(queue, k, UpdateEvent(obj[k], new))
    /\ userWrites' = userWrites + 1
    /\ UNCHANGED <<workspaces, reconciles, pc, ctxDone, kustomization, repository,
                   tmpDir, synced, syncErr, result, trace, removeFailures, event, passed, served, files, applied>>

\* A metadata change: an annotation is removed.
UserRemoveAnnotation(k) ==
    /\ userWrites < MaxUserWrites
    /\ obj[k] # Nil
    /\ \E key \in DOMAIN obj[k].annotations :
         LET old == obj[k].annotations
             a   == [x \in DOMAIN old \ {key} |-> old[x]]
             new == [obj[k] EXCEPT !.annotations = a, !.resourceVersion = @ + 1]
         IN /\ obj' = [obj EXCEPT ![k] = new]
            /\ queue' = Enqueue(queue, k, UpdateEvent(obj[k], new))
    /\ userWrites' = userWrites + 1
    /\ UNCHANGED <<workspaces, reconciles, pc, ctxDone, kustomization, repository,
                   tmpDir, synced, syncErr, result, trace, removeFailures, event, passed, served, files, applied>>

\* The object is deleted; predicate.Funcs lets delete events through.
UserDelete(k) ==
    /\ userWrites < MaxUserWrites
    /\ obj[k] # Nil
    /\ obj' = [obj EXCEPT ![k] = Nil]
    /\ queue' = queue \cup {k}
    /\ userWrites' = userWrites + 1
    /\ UNCHANGED <<workspaces, reconciles, pc, ctxDone, kustomization, repository,
                   tmpDir, synced, syncErr, result, trace, removeFailures, event, passed, served, files, applied>>

(***************************************************************************)
(* Reconcile.                                                              *)
(***************************************************************************)
\* IgnoreNotFound left out: every error of the first Get is returned.
ReturnGetError(err) == err

\* client.IgnoreNotFound
IgnoreNotFound(err) == IF err = NotFoundErr THEN Nil ELSE err

\* The result when the Kustomization cannot be loaded.
GetErrorResult(err) == Result(FALSE, 0, IgnoreNotFound(err))

\* The GitRepository error returned without asking for a requeue.
RepositoryErrorNoRequeue(err) == Result(FALSE, 0, err)

\* The result when the GitRepository cannot be loaded.
RepositoryErrorResult(err) == Result(TRUE, 0, err)

\* The status write skipped when sync failed.
AfterSyncSkipOnError(err) == IF err # Nil THEN "return" ELSE "update"

\* Where Reconcile goes once sync has returned: the error is logged and the
\* status is written whatever it is.
AfterSync(err) == "update"

\* The status write handed the object as it was loaded.
UpdateLoaded(loaded, copy) == loaded

\* The object handed to r.Status().Update: the copy sync returned.
UpdateArgument(loaded, copy) == copy

\* Where Reconcile goes when the status write failed.
AfterUpdateError(err) == "return"

\* The error of the status write logged and dropped.
UpdateErrorDropped(err) == Result(TRUE, 0, Nil)

\* The result when the status write failed.
UpdateErrorResult(err) == Result(TRUE, 0, err)

\* The requeue delay doubled after a failed sync.
RequeueWithBackoff(loaded, err) ==
    Result(FALSE, IF err # Nil THEN 2 * loaded.interval ELSE loaded.interval, Nil)

\* The error of sync handed on to the caller of Reconcile.
RequeueReturningSyncError(loaded, err) == Result(FALSE, loaded.interval, err)

\* The result once the status is written: requeue after Spec.Interval.
RequeueResult(loaded, err) == Result(FALSE, loaded.interval, Nil)

\* Outcomes of an API call that takes the context: the server answers, or
\* the deadline expires while it runs; once the context has expired the call
\* can only fail with the context's error.  Any other failure of the call
\* takes the path of the deadline error through Reconcile.
CtxOutcomes(k) == IF ctxDone[k] THEN {"deadline"} ELSE {"ok", "deadline"}

\* A call is taken off the queue and started with a fresh context.
StartReconcile(k) ==
    /\ k \in queue
    /\ pc[k] = "idle"
    /\ Cardinality({j \in Names : pc[j] # "idle"}) < MaxConcurrentReconciles
    /\ reconciles < MaxReconciles
    /\ queue' = queue \ {k}
    /\ reconciles' = reconciles + 1
    /\ pc' = [pc EXCEPT ![k] = "get"]
    /\ ctxDone' = [ctxDone EXCEPT ![k] = FALSE]
    /\ UNCHANGED <<obj, workspaces, userWrites, kustomization, repository, tmpDir,
                   synced, syncErr, result, trace, removeFailures, event, passed, served, files, applied>>

\* r.Get(ctx, req.NamespacedName, &kustomization)
ReconcileGet(k) ==
    /\ pc[k] = "get"
    /\ \E outcome \in CtxOutcomes(k) :
         LET err == CASE outcome = "deadline" -> DeadlineErr
                      [] obj[k] = Nil         -> NotFoundErr
                      [] OTHER                -> Nil
         IN /\ ctxDone' = [ctxDone EXCEPT ![k] = @ \/ outcome = "deadline"]
            /\ trace' = Append1(trace, k, [op |-> "Get", err |-> err])
            /\ IF err # Nil
               THEN /\ result' = [result EXCEPT ![k] = GetErrorResult(err)]
                    /\ pc' = [pc EXCEPT ![k] = "return"]
                    /\ UNCHANGED kustomization
               ELSE /\ kustomization' = [kustomization EXCEPT ![k] = obj[k]]
                    /\ pc' = [pc EXCEPT ![k] = "getrepo"]
                    /\ UNCHANGED result
    /\ UNCHANGED <<obj, queue, workspaces, reconciles, userWrites, repository,
                   tmpDir, synced, syncErr, removeFailures, event, passed, served, files, applied>>

\* The GitRepository objects a load can find.
Artifacts    == {Nil, [url |-> ""]} \cup [url : served]
Repositories == [name : {RepoName}, artifact : Artifacts]

\* r.Client.Get(ctx, repositoryName, &repository)
ReconcileGetRepository(k) ==
    /\ pc[k] = "getrepo"
    /\ \E outcome \in CtxOutcomes(k), found \in Repositories \cup {Nil} :
         LET err == CASE outcome = "deadline" -> DeadlineErr
                      [] found = Nil          -> NotFoundErr
                      [] OTHER                -> Nil
         IN /\ outcome = "deadline" => found = Nil
            /\ ctxDone' = [ctxDone EXCEPT ![k] = @ \/ outcome = "deadline"]
            /\ trace' = Append1(trace, k, [op |-> "GetRepository", err |-> err])
            /\ IF err # Nil
               THEN /\ result' = [result EXCEPT ![k] = RepositoryErrorResult(err)]
                    /\ pc' = [pc EXCEPT ![k] = "return"]
                    /\ UNCHANGED repository
               ELSE /\ repository' = [repository EXCEPT ![k] = found]
                    /\ pc' = [pc EXCEPT ![k] = "sync"]
                    /\ UNCHANGED result
    /\ UNCHANGED <<obj, queue, workspaces, reconciles, userWrites, kustomization,
                   tmpDir, synced, syncErr, removeFailures, event, passed, served, files, applied>>

(***************************************************************************)
(* sync.                                                                   *)
(***************************************************************************)
\* The artifact check with the empty-URL case forgotten.
ArtifactNil(repo) == repo.artifact = Nil

\* repository.Status.Artifact == nil || repository.Status.Artifact.URL == ""
ArtifactMissing(repo) == repo.artifact = Nil \/ repo.artifact.url = ""

\* os.RemoveAll(tmpDir), deferred: runs on every return after TempDir, and
\* its error is dropped.  Either the directory is gone with all it held, or
\* the removal failed on the way and the directory stays with what could
\* not be unlinked.  The outcomes are pairs of the directories that exist
\* and what they hold.
RemoveAll(ws, fs, dir) ==
    {[ws |-> ws \ {dir}, fs |-> [fs EXCEPT ![dir] = {}], failed |-> 0]}
    \cup {[ws |-> ws, fs |-> [fs EXCEPT ![dir] = c], failed |-> 1] : c \in SUBSET fs[dir]}

\* Outcomes of exec.CommandContext(ctx, ...).CombinedOutput(): exit 0, a
\* non-zero exit, killed when the context expires while it runs, or not
\* started because the context had expired by the time of Start (the timer
\* can fire between two calls), which gives the context's error.
ExecOutcomes(k) ==
    IF ctxDone[k] THEN {"deadline"} ELSE {"ok", "exit", "killed", "deadline"}
KilledErr       == Errorf(<<"signal: killed">>)
ExecErr(k, outcome) ==
    CASE outcome = "exit"     -> ExitErr
      [] outcome = "killed"   -> KilledErr
      [] outcome = "deadline" -> DeadlineErr

\* sync returns a NotReady copy of its argument and an error.
SyncFails(k, reason, message, err) ==
    /\ synced' = [synced EXCEPT
                     ![k] = KustomizationNotReady(kustomization[k], reason, message)]
    /\ syncErr' = [syncErr EXCEPT ![k] = err]
    /\ pc' = [pc EXCEPT ![k] = AfterSync(err)]

\* The artifact check at the head of sync.
SyncArtifactCheck(k) ==
    /\ pc[k] = "sync"
    /\ trace' = Append1(trace, k, [op |-> "sync"])
    /\ IF ArtifactMissing(repository[k])
       THEN LET err == Errorf(<<"artifact not found in ", repository[k].name>>)
            IN SyncFails(k, ArtifactFailedReason, err.msg, err)
       ELSE /\ pc' = [pc EXCEPT ![k] = "tmpdir"]
            /\ UNCHANGED <<synced, syncErr>>
    /\ UNCHANGED <<obj, queue, workspaces, reconciles, userWrites, ctxDone,
                   kustomization, repository, tmpDir, result, removeFailures, event, passed, served, files, applied>>

\* A directory name taken whether or not it is in use.
TempDirAnyName(ws) == [suffix : Dirs]

\* The names ioutil.TempDir can return: it creates the directory with Mkdir
\* and tries another name when the one it drew exists.
TempDirNames(ws) == [suffix : Dirs] \ ws

\* ioutil.TempDir("", repository.Name): a directory under a name no existing
\* directory has, or an error.
SyncTempDir(k) ==
    /\ pc[k] = "tmpdir"
    /\ trace' = Append1(trace, k, [op |-> "TempDir"])
    /\ \/ \E d \in TempDirNames(workspaces) :
            /\ tmpDir' = [tmpDir EXCEPT ![k] = d]
            /\ workspaces' = workspaces \cup {d}
            /\ pc' = [pc EXCEPT ![k] = "fetch"]
            /\ UNCHANGED <<synced, syncErr>>
       \/ LET err == Errorf(<<"tmp dir error: ", "no space left on device">>)
          IN /\ SyncFails(k, StorageOperationFailedReason, err.msg, err)
             /\ UNCHANGED <<tmpDir, workspaces>>
    /\ UNCHANGED <<obj, queue, reconciles, userWrites, ctxDone, kustomization,
                   repository, result, removeFailures, event, passed, served, files, applied>>

\* What a directory holds: the trees unpacked into it and the manifests
\* rendered in it, each manifest with the trees it was rendered from.
Tree(url)         == [kind |-> "tree", name |-> url, from |-> {}]
Rendered(name, c) == [kind |-> "manifest", name |-> name,
                      from |-> {i.name : i \in {j \in c : j.kind = "tree"}}]

\* The file kubectl apply -f name.yaml reads in a directory, if it is there.
Manifest(c, name) ==
    IF \E i \in c : i.kind = "manifest" /\ i.name = name
    THEN CHOOSE i \in c : i.kind = "manifest" /\ i.name = name
    ELSE Nil

\* What a directory holds after a step that succeeded: tar unpacks the
\* artifact into it, kustomize build renders what is in it and the shell
\* redirection replaces name.yaml.
Written(k, at, c) ==
    IF at = "fetch"
    THEN c \cup {Tree(repository[k].artifact.url)}
    ELSE {i \in c : ~(i.kind = "manifest" /\ i.name = k)} \cup {Rendered(k, c)}

\* What a directory can hold when a step has failed: a command that was
\* not started has written nothing, one that ran may have written its
\* output before it failed.
LeftBy(k, at, outcome, c) ==
    IF outcome = "deadline" THEN {c} ELSE {c, Written(k, at, c)}

\* One external step of sync: on failure sync returns and its deferred
\* RemoveAll runs; on success sync goes on to `next`.
ExecStep(k, at, cmd, reason, prefix, errPrefix, next) ==
    /\ pc[k] = at
    /\ trace' = Append1(trace, k, cmd)
    /\ \E outcome \in ExecOutcomes(k) :
         /\ ctxDone' = [ctxDone EXCEPT ![k] = @ \/ outcome \in {"killed", "deadline"}]
         /\ IF outcome = "ok"
            THEN /\ pc' = [pc EXCEPT ![k] = next]
                 /\ files' = [files EXCEPT ![tmpDir[k]] = Written(k, at, @)]
                 /\ UNCHANGED <<synced, syncErr, workspaces, tmpDir, removeFailures>>
            ELSE /\ SyncFails(k, reason, <<prefix>> \o ExecErr(k, outcome).msg,
                              Errorf(errPrefix \o Output(at)))
                 /\ \E c \in LeftBy(k, at, outcome, files[tmpDir[k]]) :
                    \E r \in RemoveAll(workspaces,
                                       [files EXCEPT ![tmpDir[k]] = c], tmpDir[k]) :
                       /\ removeFailures + r.failed <= MaxRemoveFailures
                       /\ removeFailures' = removeFailures + r.failed
                       /\ workspaces' = r.ws
                       /\ files' = r.fs
                 /\ tmpDir' = [tmpDir EXCEPT ![k] = Nil]
    /\ UNCHANGED <<obj, queue, reconciles, userWrites, kustomization, repository,
                   result, event, passed, served, applied>>

\* fmt.Errorf("artifact download `%s` error: %s", url, string(output)) up to
\* the output; the quote character of the format cannot be written in a
\* string here and is named by its code point.
Backquote == "U+0060"
DownloadError(url) == <<"artifact download ", Backquote, url, Backquote, " error: ">>

\* The fetch going straight on to the apply.
SyncFetchThenApply(k) ==
    ExecStep(k, "fetch",
             [op |-> "fetch", url |-> repository[k].artifact.url],
             ArtifactFailedReason, "artifact acquisition failed: ",
             DownloadError(repository[k].artifact.url),
             "apply")

\* cd tmpDir && curl -sL url | tar -xz --strip-components=1 -C .
SyncFetch(k) ==
    ExecStep(k, "fetch",
             [op |-> "fetch", url |-> repository[k].artifact.url],
             ArtifactFailedReason, "artifact acquisition failed: ",
             DownloadError(repository[k].artifact.url),
             "build")

\* cd tmpDir && kustomize build Path > name.yaml
SyncBuild(k) ==
    ExecStep(k, "build",
             [op |-> "build", file |-> k],
             BuildFailedReason, "kustomize build error: ",
             <<"kustomize build error: ">>, "apply")

\* An apply command line that prunes whatever the spec says.
ApplyCmdAlwaysPrune(name, prune) ==
    [op |-> "apply", file |-> name, flags |-> <<"--prune", "-l", prune>>]

\* The kubectl apply command line.
ApplyCmd(name, prune) ==
    IF prune # ""
    THEN [op |-> "apply", file |-> name, flags |-> <<"--prune", "-l", prune>>]
    ELSE [op |-> "apply", file |-> name, flags |-> << >>]

\* A manifest of which only a part reached the cluster.
Partly(m) == IF m = Nil THEN Nil ELSE [m EXCEPT !.kind = "partial"]

\* What the cluster can hold for an identity when its apply has failed: a
\* command that was not started has changed nothing; kubectl can exit
\* non-zero after it applied a part or all of the manifest; and at the
\* deadline only /bin/sh is killed, so the kubectl it forked can still run
\* to its end.
AppliedOnFailure(outcome, before, m) ==
    IF outcome = "deadline" \/ m = Nil THEN {before} ELSE {before, Partly(m), m}

\* cd tmpDir && kubectl apply -f name.yaml [--prune -l Prune]; on success sync
\* returns the Ready copy, and its deferred RemoveAll runs.
SyncApply(k) ==
    /\ pc[k] = "apply"
    /\ trace' = Append1(trace, k, ApplyCmd(k, kustomization[k].prune))
    /\ \E outcome \in ExecOutcomes(k) :
         /\ ctxDone' = [ctxDone EXCEPT ![k] = @ \/ outcome \in {"killed", "deadline"}]
         /\ IF outcome = "ok"
            THEN /\ synced' = [synced EXCEPT ![k] =
                       KustomizationReady(kustomization[k], ApplySucceedReason,
                                          <<"kustomization was successfully applied">>)]
                 /\ syncErr' = [syncErr EXCEPT ![k] = Nil]
                 /\ pc' = [pc EXCEPT ![k] = AfterSync(Nil)]
                 /\ applied' = [applied EXCEPT ![k] = Manifest(files[tmpDir[k]], k)]
            ELSE /\ SyncFails(k, ApplyFailedReason,
                              <<"kubectl apply error: ">> \o ExecErr(k, outcome).msg,
                              Errorf(<<"kubectl apply: ">> \o Output("apply")))
                 /\ \E m \in AppliedOnFailure(outcome, applied[k],
                                               Manifest(files[tmpDir[k]], k)) :
                       applied' = [applied EXCEPT ![k] = m]
    /\ \E r \in RemoveAll(workspaces, files, tmpDir[k]) :
         /\ removeFailures + r.failed <= MaxRemoveFailures
         /\ removeFailures' = removeFailures + r.failed
         /\ workspaces' = r.ws
         /\ files' = r.fs
    /\ tmpDir' = [tmpDir EXCEPT ![k] = Nil]
    /\ UNCHANGED <<obj, queue, reconciles, userWrites, kustomization, repository,
                   result, event, passed, served>>

(***************************************************************************)
(* Reconcile, after sync.                                                  *)
(***************************************************************************)
\* Outcomes of the status write: the server answers; the deadline expires
\* before the server has stored anything; or the deadline expires while the
\* request is in flight and the server has stored the write, which the client
\* cannot tell from the case before.  Once the context has expired the
\* request is not sent.
WriteOutcomes(k) ==
    IF ctxDone[k] THEN {"deadline"} ELSE {"ok", "deadline", "committed"}

\* r.Status().Update(ctx, &syncedKustomization): an optimistic write of the
\* status; the server rejects it when the object is gone or has changed since
\* it was loaded.  When the answer arrives it is decoded into the argument,
\* which then is the object as the server holds it.
ReconcileUpdateStatus(k) ==
    /\ pc[k] = "update"
    /\ \E outcome \in WriteOutcomes(k) :
         LET arg == UpdateArgument(kustomization[k], synced[k])
             answer == CASE obj[k] = Nil -> NotFoundErr
                         [] obj[k].resourceVersion # arg.resourceVersion
                                          -> ConflictErr
                         [] OTHER         -> Nil
             err == IF outcome = "ok" THEN answer ELSE DeadlineErr
             new == [obj[k] EXCEPT !.condition = arg.condition,
                                   !.resourceVersion = @ + 1]
         IN /\ outcome = "committed" => answer = Nil
            /\ ctxDone' = [ctxDone EXCEPT ![k] = @ \/ outcome # "ok"]
            /\ trace' = Append1(trace, k, [op |-> "StatusUpdate", err |-> err])
            /\ IF err # Nil
               THEN /\ result' = [result EXCEPT ![k] = UpdateErrorResult(err)]
                    /\ pc' = [pc EXCEPT ![k] = AfterUpdateError(err)]
                    /\ IF outcome = "committed"
                       THEN /\ obj' = [obj EXCEPT ![k] = new]
                            /\ queue' = Enqueue(queue, k, UpdateEvent(obj[k], new))
                       ELSE UNCHANGED <<obj, queue>>
                    /\ UNCHANGED synced
               ELSE /\ obj' = [obj EXCEPT ![k] = new]
                    /\ queue' = Enqueue(queue, k, UpdateEvent(obj[k], new))
                    /\ synced' = [synced EXCEPT ![k] = new]
                    /\ result' = [result EXCEPT
                                     ![k] = RequeueResult(kustomization[k], syncErr[k])]
                    /\ pc' = [pc EXCEPT ![k] = "return"]
    /\ UNCHANGED <<workspaces, reconciles, userWrites, kustomization, repository,
                   tmpDir, syncErr, removeFailures, event, passed, served, files, applied>>

\* Reconcile has returned: the controller requeues the identity when the
\* result carries an error, Requeue or a positive RequeueAfter.  The call's
\* context is cancelled and its locals are gone.
ReconcileReturn(k) ==
    /\ pc[k] = "return"
    /\ queue' = IF \/ result[k].err # Nil
                   \/ result[k].Requeue
                   \/ result[k].RequeueAfter > 0
                THEN queue \cup {k} ELSE queue
    /\ pc' = [pc EXCEPT ![k] = "idle"]
    /\ ctxDone' = [ctxDone EXCEPT ![k] = FALSE]
    /\ kustomization' = [kustomization EXCEPT ![k] = Nil]
    /\ repository' = [repository EXCEPT ![k] = Nil]
    /\ synced' = [synced EXCEPT ![k] = Nil]
    /\ syncErr' = [syncErr EXCEPT ![k] = Nil]
    /\ result' = [result EXCEPT ![k] = NoResult]
    /\ trace' = [trace EXCEPT ![k] = << >>]
    /\ UNCHANGED <<obj, workspaces, reconciles, userWrites, tmpDir, removeFailures, event, passed, served, files, applied>>

Next ==
    \E k \in Names :
        \/ UserUpdateSpec(k)
        \/ UserAnnotate(k)
        \/ UserRemoveAnnotation(k)
        \/ UserDelete(k)
        \/ StartReconcile(k)
        \/ ReconcileGet(k)
        \/ ReconcileGetRepository(k)
        \/ SyncArtifactCheck(k)
        \/ SyncTempDir(k)
        \/ SyncFetch(k)
        \/ SyncBuild(k)
        \/ SyncApply(k)
        \/ ReconcileUpdateStatus(k)
        \/ ReconcileReturn(k)

Spec == Init /\ [][Next]_vars

(***************************************************************************)
(* The reconciler with the objects left alone by other clients and the     *)
(* source publishing a second artifact.                                    *)
(***************************************************************************)
PipelineInit == InitWith(ArtifactURLs)

PipelineNext ==
    \E k \in Names :
        \/ StartReconcile(k)
        \/ ReconcileGet(k)
        \/ ReconcileGetRepository(k)
        \/ SyncArtifactCheck(k)
        \/ SyncTempDir(k)
        \/ SyncFetch(k)
        \/ SyncBuild(k)
        \/ SyncApply(k)
        \/ ReconcileUpdateStatus(k)
        \/ ReconcileReturn(k)

PipelineSpec == PipelineInit /\ [][PipelineNext]_vars

(***************************************************************************)
(* The predicate on its own: any update event can be handed to it.         *)
(***************************************************************************)
Deliver(ev) ==
    /\ event' = ev
    /\ passed' = Update(ev)
    /\ UNCHANGED <<obj, queue, workspaces, reconciles, userWrites, removeFailures, pc, ctxDone,
                   kustomization, repository, tmpDir, synced, syncErr, result, trace,
                   served, files, applied>>

PredNext == \E ev \in UpdateEvents : Deliver(ev)

PredSpec == Init /\ [][PredNext]_vars

(***************************************************************************)
(* Properties.                                                             *)
(***************************************************************************)
InSync(k)     == pc[k] \in {"tmpdir", "fetch", "build", "apply"}
HasDir(k)     == pc[k] \in {"fetch", "build", "apply"}
SyncOver(k)   == pc[k] \in {"update", "return"} /\ synced[k] # Nil
RanSync(k)    == kustomization[k] # Nil /\ repository[k] # Nil
LastCall(k)   == trace[k][Len(trace[k])]
WriteOk(k)    == /\ pc[k] = "return"
                 /\ LastCall(k).op = "StatusUpdate"
                 /\ LastCall(k).err = Nil

\* C1: a sync whose repository has no artifact, or an artifact with an empty
\* URL, never gets past the artifact check: it returns NotReady with the
\* artifact-failure reason and a non-nil error, and the call has created no
\* directory and started none of fetch, build and apply.
C1_ArtifactMissingFailsFast ==
    \A k \in Names :
        (repository[k] # Nil
            /\ (repository[k].artifact = Nil \/ repository[k].artifact.url = ""))
        => /\ ~InSync(k)
           /\ tmpDir[k] = Nil
           /\ Ops(k) \cap {"TempDir", "fetch", "build", "apply"} = {}
           /\ SyncOver(k) =>
                /\ synced[k].condition =
                     [status |-> "False", reason |-> ArtifactFailedReason,
                      message |-> <<"artifact not found in ", RepoName>>]
                /\ syncErr[k] # Nil

C1_Witness ==
    \E k \in Names :
        /\ pc[k] = "update"
        /\ repository[k] # Nil
        /\ repository[k].artifact = [url |-> ""]
        /\ workspaces = {}

\* C2: the directories on disk are exactly the directories of the attempts
\* that are inside sync after TempDir; an attempt that has returned from
\* sync, on any path, has left none behind, and with no attempt in flight
\* the disk is clean.
C2_NoWorkspaceLeft ==
    /\ workspaces = {tmpDir[k] : k \in {j \in Names : HasDir(j)}}
    /\ \A k \in Names : ~HasDir(k) => tmpDir[k] = Nil
    /\ (\A k \in Names : pc[k] = "idle") => workspaces = {}

\* C3: a Reconcile call attempts the status write at most once; when it
\* returns it has attempted it exactly once if it ran sync (both objects
\* were loaded) and not at all otherwise.
C3_OneStatusWrite ==
    \A k \in Names :
        /\ Count(k, "StatusUpdate") <= 1
        /\ Count(k, "StatusUpdate") = 1 => RanSync(k)
        /\ pc[k] = "return" =>
              Count(k, "StatusUpdate") = (IF RanSync(k) THEN 1 ELSE 0)

C3_Witness ==
    \E k \in Names :
        /\ pc[k] = "return"
        /\ syncErr[k] # Nil
        /\ LastCall(k).op = "StatusUpdate"
        /\ LastCall(k).err = ConflictErr
        /\ Count(k, "StatusUpdate") = 1

\* C4: when the status write succeeded Reconcile returns no error, no
\* immediate requeue, and RequeueAfter equal to the Interval of the object it
\* loaded, whether sync failed or not and whatever the previous call did.
C4_RequeueAfterInterval ==
    \A k \in Names :
        WriteOk(k) =>
            /\ result[k].returned
            /\ result[k].err = Nil
            /\ ~result[k].Requeue
            /\ result[k].RequeueAfter = kustomization[k].interval

C4_Witness ==
    \E k \in Names :
        /\ WriteOk(k)
        /\ kustomization[k].condition.status = "False"
        /\ syncErr[k] # Nil
        /\ result[k].RequeueAfter = 5

\* C5: when loading the GitRepository fails Reconcile returns Requeue with
\* the load error, having made no call after the failed load: no sync, no
\* directory, no status write.
C5_RepositoryLoadFailure ==
    \A k \in Names :
        (pc[k] = "return" /\ LastCall(k).op = "GetRepository")
        => /\ LastCall(k).err # Nil
           /\ result[k].Requeue
           /\ result[k].err = LastCall(k).err
           /\ Ops(k) = {"Get", "GetRepository"}
           /\ synced[k] = Nil
           /\ tmpDir[k] = Nil

C5_Witness ==
    \E k \in Names :
        /\ pc[k] = "return"
        /\ LastCall(k) = [op |-> "GetRepository", err |-> NotFoundErr]
        /\ result[k].Requeue

\* C6: when the Kustomization is not found Reconcile returns the empty
\* result and no error, having made no other call.
C6_NotFoundIsNoop ==
    \A k \in Names :
        (pc[k] = "return" /\ trace[k][1].err = NotFoundErr)
        => /\ result[k] = Result(FALSE, 0, Nil)
           /\ Len(trace[k]) = 1
           /\ kustomization[k] = Nil /\ repository[k] = Nil /\ synced[k] = Nil
           /\ tmpDir[k] = Nil
           /\ obj[k] = Nil

C6_Witness ==
    \E k \in Names :
        /\ pc[k] = "return"
        /\ trace[k] = <<[op |-> "Get", err |-> NotFoundErr]>>
        /\ workspaces = {}

(***************************************************************************)
(* Properties of the predicate.                                            *)
(***************************************************************************)
BothMeta   == event.MetaOld # Nil /\ event.MetaNew # Nil
OldAnn     == event.MetaOld.annotations
NewAnn     == event.MetaNew.annotations
SameGen    == event.MetaOld.generation = event.MetaNew.generation
InOld      == SyncAtAnnotation \in DOMAIN OldAnn
InNew      == SyncAtAnnotation \in DOMAIN NewAnn

\* C7: an update event with metadata on both sides and different
\* generations passes, whatever the annotations.
C7_GenerationChangePasses ==
    (BothMeta /\ ~SameGen) => passed

C7_Witness ==
    /\ BothMeta /\ ~SameGen
    /\ InOld /\ ~InNew
    /\ passed

\* C8: with metadata on both sides and equal generations, an update event
\* passes exactly when the sync-at annotation is on the new object and is
\* missing from the old one or has another value there.
C8_SameGenerationPassesIffSyncAt ==
    (BothMeta /\ SameGen) =>
        (passed <=> (InNew /\ (~InOld \/ NewAnn[SyncAtAnnotation] # OldAnn[SyncAtAnnotation])))

C8_Witness ==
    /\ BothMeta /\ SameGen
    /\ InNew /\ InOld /\ NewAnn[SyncAtAnnotation] = OldAnn[SyncAtAnnotation]
    /\ OtherAnnotation \in DOMAIN NewAnn /\ OtherAnnotation \notin DOMAIN OldAnn
    /\ ~passed

\* C9 as stated: with metadata on both sides, any change of the sync-at
\* annotation (its presence or its value differs) passes.
C9_AnySyncAtChangePasses ==
    (BothMeta /\ (InOld # InNew
                    \/ (InOld /\ InNew
                          /\ NewAnn[SyncAtAnnotation] # OldAnn[SyncAtAnnotation])))
    => passed

\* C9 amended: with metadata on both sides, a change of the sync-at
\* annotation that leaves it on the new object (it was added, or its value
\* changed) passes; its removal passes only with a generation change.
C9_SyncAtSetOrChangedPasses ==
    BothMeta =>
        /\ (InNew /\ ~InOld) => passed
        /\ (InNew /\ InOld /\ NewAnn[SyncAtAnnotation] # OldAnn[SyncAtAnnotation])
              => passed
        /\ (InOld /\ ~InNew) => (passed <=> ~SameGen)

C9_Witness ==
    /\ BothMeta /\ SameGen
    /\ InNew /\ InOld
    /\ OldAnn[SyncAtAnnotation] = "t1" /\ NewAnn[SyncAtAnnotation] = "t2"
    /\ passed

\* C10: an update event that lacks the metadata of the old or of the new
\* object does not pass.
C10_MissingMetadataSuppressed ==
    (event.MetaOld = Nil \/ event.MetaNew = Nil) => ~passed

C10_Witness ==
    /\ event.MetaOld = Nil
    /\ event.MetaNew # Nil
    /\ SyncAtAnnotation \in DOMAIN event.MetaNew.annotations
    /\ event.MetaNew.generation = MaxGeneration
    /\ ~passed

(***************************************************************************)
(* Properties of the status condition.                                     *)
(***************************************************************************)
\* The stage sync was in when it returned, and whether it failed there.
SyncStage(k)  == IF LastCall(k).op = "StatusUpdate"
                 THEN trace[k][Len(trace[k]) - 1].op ELSE LastCall(k).op
SyncFailed(k) == SyncOver(k) /\ syncErr[k] # Nil

\* The stage at which the attempt failed whose NotReady condition was
\* loaded: every stage opens its message with words of its own.
StageOfMessage(message) ==
    CASE message[1] = "artifact not found in "        -> "sync"
      [] message[1] = "tmp dir error: "               -> "TempDir"
      [] message[1] = "artifact acquisition failed: " -> "fetch"
      [] message[1] = "kustomize build error: "       -> "build"
      [] message[1] = "kubectl apply error: "         -> "apply"
FailedBefore(k) == SyncOver(k) /\ kustomization[k].condition.status = "False"

\* C11: each failed kind gives NotReady with a reason that identifies the
\* stage that failed, so the failing stage can be read back from the reason:
\* an attempt that failed with the reason the attempt before it had
\* persisted failed at the same stage as that one.
C11_ReasonIdentifiesStage ==
    \A k \in Names :
        (SyncFailed(k) /\ FailedBefore(k)
            /\ synced[k].condition.reason = kustomization[k].condition.reason)
        => SyncStage(k) = StageOfMessage(kustomization[k].condition.message)

\* The condition the code gives for each stage at which sync returns.
\* Success gives Ready with the apply-succeeded reason and the fixed
\* message; a failure gives NotReady with ArtifactFailed for the artifact
\* check and for the fetch alike, StorageOperationFailed for TempDir,
\* BuildFailed for the build and ApplyFailed for the apply; what sync returns
\* differs from the object that was loaded in nothing but the condition, and
\* after the status write in nothing but the condition and the
\* resourceVersion the server has given it.
C11_ConditionByStage ==
    \A k \in Names :
        SyncOver(k) =>
            /\ pc[k] = "update" =>
                  [synced[k] EXCEPT !.condition = kustomization[k].condition]
                     = kustomization[k]
            /\ [synced[k] EXCEPT !.condition = kustomization[k].condition,
                                 !.resourceVersion = kustomization[k].resourceVersion]
                  = kustomization[k]
            /\ syncErr[k] = Nil =>
                  /\ SyncStage(k) = "apply"
                  /\ synced[k].condition =
                        [status |-> "True", reason |-> ApplySucceedReason,
                         message |-> <<"kustomization was successfully applied">>]
            /\ syncErr[k] # Nil =>
                  /\ synced[k].condition.status = "False"
                  /\ synced[k].condition.reason =
                        CASE SyncStage(k) = "sync"    -> ArtifactFailedReason
                          [] SyncStage(k) = "TempDir" -> StorageOperationFailedReason
                          [] SyncStage(k) = "fetch"   -> ArtifactFailedReason
                          [] SyncStage(k) = "build"   -> BuildFailedReason
                          [] SyncStage(k) = "apply"   -> ApplyFailedReason

\* An attempt that found no artifact, then one whose fetch failed: the
\* reason is the same.
C11_Witness ==
    \E k \in Names :
        /\ SyncFailed(k) /\ FailedBefore(k)
        /\ StageOfMessage(kustomization[k].condition.message) = "sync"
        /\ SyncStage(k) = "fetch"
        /\ kustomization[k].condition.reason = ArtifactFailedReason
        /\ synced[k].condition.reason = ArtifactFailedReason

\* The stages of sync that run an external command.
ExecStages == {"fetch", "build", "apply"}
Contains(seq, x) == \E i \in DOMAIN seq : seq[i] = x

\* C12: when the fetch, the build or the apply exits non-zero, the message of
\* the NotReady condition that is persisted contains the output captured
\* from the failing step.
C12_MessageCarriesOutput ==
    \A k \in Names :
        (/\ WriteOk(k) /\ syncErr[k] # Nil /\ ~ctxDone[k]
         /\ SyncStage(k) \in ExecStages
         /\ obj[k] # Nil)
        => Contains(obj[k].condition.message, Output(SyncStage(k))[2])

\* The apply commands the call in flight has run.
Applies(k) == {trace[k][i] : i \in {n \in DOMAIN trace[k] : trace[k][n].op = "apply"}}

\* C13: the apply step carries the prune flag, scoped to the selector of
\* Spec.Prune, exactly when the Spec.Prune of the loaded Kustomization is
\* non-empty; with an empty Spec.Prune it carries no flag at all.
C13_PruneIffSelector ==
    \A k \in Names : \A cmd \in Applies(k) :
        /\ Contains(cmd.flags, "--prune") <=> kustomization[k].prune # ""
        /\ kustomization[k].prune # ""
              => cmd.flags = <<"--prune", "-l", kustomization[k].prune>>
        /\ kustomization[k].prune = "" => cmd.flags = << >>

\* Both cases of one identity: "a" is created without a selector and is
\* given one by a later spec change.
C13_Witness ==
    /\ kustomization["a"] # Nil
    /\ kustomization["a"].prune = "app=foo"
    /\ obj["a"] # Nil /\ obj["a"].generation = 2
    /\ \E cmd \in Applies("a") : cmd.flags = <<"--prune", "-l", "app=foo">>

C13_WitnessNoPrune ==
    /\ kustomization["a"] # Nil
    /\ kustomization["a"].prune = ""
    /\ \E cmd \in Applies("a") : cmd.flags = << >>

\* The call's deadline expired while an external command of sync was running.
KilledInStage(k) ==
    /\ SyncFailed(k) /\ SyncStage(k) \in ExecStages
    /\ Contains(synced[k].condition.message, KilledErr.msg[1])

\* C14: when the deadline of the attempt expires during the fetch, the build
\* or the apply, the step is aborted, no later step is started, and once
\* Reconcile is over the persisted status is NotReady with the reason of the
\* stage that was active.
C14_DeadlineIsPersisted ==
    \A k \in Names :
        (pc[k] = "return" /\ KilledInStage(k) /\ obj[k] # Nil)
        => /\ LastCall(k).op = "StatusUpdate"
           /\ trace[k][Len(trace[k]) - 1].op = SyncStage(k)
           /\ obj[k].condition.status = "False"
           /\ obj[k].condition.reason = synced[k].condition.reason

(***************************************************************************)
(* Properties of what Reconcile returns and persists.                      *)
(***************************************************************************)
Returned(k) == pc[k] = "return"

\* C15 as stated: Reconcile returns an error only when the load of the
\* GitRepository or the status write failed; no other path returns one.
C15_ErrorOnlyFromRepositoryOrWrite ==
    \A k \in Names :
        (Returned(k) /\ result[k].err # Nil)
        => LastCall(k).op \in {"GetRepository", "StatusUpdate"}

\* C15 amended: Reconcile returns a non-nil error exactly when its last API
\* call failed, and that error is the call's: the load of the Kustomization
\* with an error other than not-found, the load of the GitRepository, or the
\* status write.  The error of sync is never the one returned: with a failed
\* sync and a status write that went through, Reconcile returns nil.
C15_ErrorOnlyFromApiCalls ==
    \A k \in Names :
        Returned(k) =>
            /\ LastCall(k).op \in {"Get", "GetRepository", "StatusUpdate"}
            /\ result[k].err # Nil
                  <=> /\ LastCall(k).err # Nil
                      /\ ~(LastCall(k).op = "Get" /\ LastCall(k).err = NotFoundErr)
            /\ result[k].err # Nil => result[k].err = LastCall(k).err
            /\ (syncErr[k] # Nil /\ LastCall(k).err = Nil) => result[k].err = Nil

\* The load of the Kustomization fails with something else than not-found.
C15_Witness ==
    \E k \in Names :
        /\ Returned(k)
        /\ LastCall(k) = [op |-> "Get", err |-> DeadlineErr]
        /\ result[k].err = DeadlineErr
        /\ ~result[k].Requeue

\* A failed sync whose error is not returned.
C15_WitnessSyncError ==
    \E k \in Names :
        Returned(k) /\ syncErr[k] # Nil /\ WriteOk(k) /\ result[k].err = Nil

\* C16 as stated: once a Reconcile call that ran sync is over, the persisted
\* condition is the outcome of that attempt, other writers or not.
C16_StatusNeverStale ==
    \A k \in Names :
        (Returned(k) /\ SyncOver(k) /\ obj[k] # Nil)
        => obj[k].condition = synced[k].condition

\* C16 amended: the status write of a Reconcile call that ran sync stores the
\* outcome of that attempt when it goes through.  When it fails Reconcile
\* returns Requeue with the error of the write, and the persisted condition
\* is still the one that was loaded (the object changed or vanished since it
\* was loaded, or the deadline had expired before the write); only when the
\* deadline expires while the write is in flight can the outcome be
\* persisted although the write returned an error.
C16_StatusFreshIfWritten ==
    [][\A k \in Names :
          (pc[k] = "update" /\ pc'[k] = "return") =>
             LET call == trace'[k][Len(trace'[k])]
             IN /\ call.op = "StatusUpdate"
                /\ obj[k] # Nil => obj[k].condition = kustomization[k].condition
                /\ call.err = Nil =>
                      /\ obj'[k] # Nil
                      /\ obj'[k].condition = synced[k].condition
                      /\ synced'[k] = obj'[k]
                /\ call.err # Nil =>
                      /\ result'[k].Requeue
                      /\ result'[k].err = call.err
                      /\ synced'[k] = synced[k]
                      /\ \/ obj'[k] = obj[k]
                         \/ /\ call.err = DeadlineErr /\ ~ctxDone[k]
                            /\ obj'[k] # Nil
                            /\ obj'[k].condition = synced[k].condition
                      /\ (call.err # DeadlineErr \/ ctxDone[k]) => obj'[k] = obj[k]]_vars

\* Another writer got in between the load and the status write.
C16_Witness ==
    \E k \in Names :
        /\ Returned(k) /\ SyncOver(k)
        /\ LastCall(k).err = ConflictErr
        /\ obj[k] # Nil
        /\ obj[k].condition # synced[k].condition
        /\ obj[k].resourceVersion > kustomization[k].resourceVersion

\* The deadline expired while the write was in flight and the server had
\* stored it: the error is returned and the outcome is persisted.
C16_WitnessCommitted ==
    \E k \in Names :
        /\ Returned(k) /\ SyncOver(k)
        /\ LastCall(k) = [op |-> "StatusUpdate", err |-> DeadlineErr]
        /\ result[k].Requeue /\ result[k].err = DeadlineErr
        /\ obj[k] # Nil
        /\ obj[k].condition = synced[k].condition
        /\ obj[k].condition # kustomization[k].condition
        /\ obj[k].resourceVersion = kustomization[k].resourceVersion + 1
        /\ synced[k].resourceVersion = kustomization[k].resourceVersion

\* Something failed in the call: an API call other than a not-found load of
\* the Kustomization, or sync.
FailureOccurred(k) ==
    \/ syncErr[k] # Nil
    \/ \E i \in DOMAIN trace[k] :
          /\ trace[k][i].op \in {"Get", "GetRepository", "StatusUpdate"}
          /\ trace[k][i].err # Nil
          /\ ~(trace[k][i].op = "Get" /\ trace[k][i].err = NotFoundErr)

\* C17: every path of Reconcile on which the load of the source, a stage of
\* sync or the status write failed ends with a non-nil error returned or
\* with a status write that went through and recorded the NotReady outcome
\* of this attempt; no failure ends with a nil error and no such write.
C17_NoSilentFailure ==
    \A k \in Names :
        (Returned(k) /\ FailureOccurred(k)) =>
            \/ result[k].err # Nil
            \/ /\ WriteOk(k)
               /\ synced[k].condition.status = "False"
               /\ obj[k] # Nil => obj[k].condition = synced[k].condition

\* A failed sync followed by a failed status write: nothing is recorded, the
\* error of the write is returned.
C17_Witness ==
    \E k \in Names :
        /\ Returned(k) /\ syncErr[k] # Nil
        /\ LastCall(k) = [op |-> "StatusUpdate", err |-> DeadlineErr]
        /\ result[k].err = DeadlineErr
        /\ obj[k] # Nil /\ obj[k].condition.status # "False"

(***************************************************************************)
(* Properties of the pipeline.                                             *)
(***************************************************************************)
\* The manifest rendered from the artifact the call has loaded, alone.
OwnManifest(k) ==
    [kind |-> "manifest", name |-> k, from |-> {repository[k].artifact.url}]

\* C18: a run of sync starts from a workspace that holds nothing, whatever
\* an earlier run has left on disk; what it renders and applies is fixed by
\* the artifact it loaded, so a run that follows a successful run with the
\* same artifact applies the very manifest that run applied, and with every
\* step succeeding it returns Ready again.
C18_Idempotent ==
    \A k \in Names :
        /\ pc[k] = "fetch" => files[tmpDir[k]] = {}
        /\ pc[k] = "build" => files[tmpDir[k]] = {Tree(repository[k].artifact.url)}
        /\ pc[k] = "apply" =>
              /\ files[tmpDir[k]] = {Tree(repository[k].artifact.url), OwnManifest(k)}
              /\ Manifest(files[tmpDir[k]], k) = OwnManifest(k)
              /\ (applied[k] # Nil /\ applied[k].kind = "manifest"
                     /\ applied[k].from = OwnManifest(k).from)
                    => Manifest(files[tmpDir[k]], k) = applied[k]
        /\ (SyncOver(k) /\ SyncStage(k) = "apply" /\ syncErr[k] = Nil) =>
              /\ synced[k].condition.status = "True"
              /\ applied[k] = OwnManifest(k)

\* The second run, after a first one that succeeded with the same artifact,
\* whose Ready status was loaded and whose directory is still on disk with
\* what it held: about to apply the same manifest from a directory of its
\* own.
C18_Witness ==
    \E k \in Names :
        /\ pc[k] = "apply"
        /\ kustomization[k].condition.status = "True"
        /\ applied[k] # Nil
        /\ Manifest(files[tmpDir[k]], k) = applied[k]
        /\ files[tmpDir[k]] = {Tree(repository[k].artifact.url), applied[k]}
        /\ \E d \in workspaces : d # tmpDir[k] /\ files[d] = files[tmpDir[k]]

\* The second run has succeeded as the first did.
C18_WitnessSecondReady ==
    \E k \in Names :
        /\ SyncOver(k) /\ syncErr[k] = Nil
        /\ kustomization[k].condition.status = "True"
        /\ synced[k].condition.status = "True"
        /\ applied[k] = OwnManifest(k)
        /\ workspaces = {}

\* The stages of sync in the order of the source, and the stages the call in
\* flight has entered, in the order it entered them.
Stages == <<"sync", "TempDir", "fetch", "build", "apply">>
IsStage(entry) == \E i \in DOMAIN Stages : Stages[i] = entry.op
StagesRun(k) ==
    LET sel == SelectSeq(trace[k], IsStage)
    IN [i \in 1..Len(sel) |-> sel[i].op]
OpsRun(k) == [i \in 1..Len(trace[k]) |-> trace[k][i].op]

\* C19: the stages of one attempt run one after another in the order
\* artifact check, workspace creation, fetch, build, apply, each at most
\* once; a stage is entered only while no earlier stage has failed; the
\* first failure ends the attempt, with nothing but the status write after
\* it; and the attempt is Ready only if the fetch, the build and the apply
\* all ran and none failed.
C19_StagesInOrder ==
    \A k \in Names :
        LET run == StagesRun(k)
        IN /\ Len(run) <= Len(Stages)
           /\ run = SubSeq(Stages, 1, Len(run))
           /\ Len(run) > 0 =>
                 \/ OpsRun(k) = <<"Get", "GetRepository">> \o run
                 \/ /\ SyncOver(k)
                    /\ OpsRun(k) = <<"Get", "GetRepository">> \o run \o <<"StatusUpdate">>
           /\ pc[k] \in {"tmpdir", "fetch", "build", "apply"} =>
                 /\ syncErr[k] = Nil /\ synced[k] = Nil
                 /\ Stages[Len(run) + 1] = (IF pc[k] = "tmpdir" THEN "TempDir" ELSE pc[k])
           /\ (SyncOver(k) /\ syncErr[k] = Nil) =>
                 /\ run = Stages
                 /\ synced[k].condition.status = "True"
           /\ (SyncOver(k) /\ synced[k].condition.status = "True") =>
                 /\ run = Stages
                 /\ syncErr[k] = Nil

\* The build failed: the apply was never started.
C19_Witness ==
    \E k \in Names :
        /\ SyncFailed(k)
        /\ StagesRun(k) = <<"sync", "TempDir", "fetch", "build">>
        /\ synced[k].condition.reason = BuildFailedReason
        /\ LastCall(k).op = "StatusUpdate"

(***************************************************************************)
(* Properties of the requeue.                                              *)
(***************************************************************************)
\* The step is the status write of k going through.
OwnStatusWrite(k) == pc[k] = "update" /\ pc'[k] = "return" /\ obj'[k] # obj[k]

\* The step is a write of k by another client that changes the spec, sets
\* or changes the sync-at annotation, or deletes the object.
TriggeringWrite(k) ==
    /\ pc'[k] = pc[k]
    /\ obj[k] # Nil
    /\ \/ obj'[k] = Nil
       \/ obj'[k].generation # obj[k].generation
       \/ /\ SyncAtAnnotation \in DOMAIN obj'[k].annotations
          /\ \/ SyncAtAnnotation \notin DOMAIN obj[k].annotations
             \/ obj[k].annotations[SyncAtAnnotation]
                   # obj'[k].annotations[SyncAtAnnotation]

\* The step is Reconcile returning a result that asks for a requeue: after
\* the interval of the loaded object, or with an error.
RequeueOnReturn(k) ==
    /\ pc[k] = "return" /\ pc'[k] = "idle"
    /\ \/ result[k].err # Nil
       \/ /\ WriteOk(k)
          /\ result[k].RequeueAfter = kustomization[k].interval

\* C20: the update event of the controller's own status write leaves the
\* generation and the annotations as they were, is rejected by the
\* predicate and does not put the identity on the queue; an identity gets
\* on the queue only when Reconcile returns with the interval requeue or
\* an error, or when another client changes the spec or the sync-at
\* annotation or deletes the object.
C20_OwnWriteDoesNotRetrigger ==
    [][\A k \in Names :
          /\ OwnStatusWrite(k) =>
                /\ Meta(obj'[k]) = Meta(obj[k])
                /\ ~Update(UpdateEvent(obj[k], obj'[k]))
                /\ queue' = queue
          /\ (k \in queue' /\ k \notin queue) =>
                RequeueOnReturn(k) \/ TriggeringWrite(k)]_vars

\* The status write went through, nobody else wrote, and the identity is
\* not on the queue while Reconcile has yet to return.
C20_Witness ==
    \E k \in Names :
        /\ WriteOk(k)
        /\ obj[k] # Nil
        /\ obj[k].resourceVersion = kustomization[k].resourceVersion + 1
        /\ obj[k].condition = synced[k].condition
        /\ obj[k].condition # kustomization[k].condition
        /\ Meta(obj[k]) = Meta(kustomization[k])
        /\ k \notin queue
        /\ result[k].RequeueAfter = kustomization[k].interval

====
